---- MODULE Spec2Model ----
(***************************************************************************)
(* Model of python/ip-finder/ip_finder.py: a Tk window (one UI thread      *)
(* running the event loop), one daemon worker thread per lookup, and the   *)
(* queue of root.after(0, ...) callbacks through which a worker hands its  *)
(* result back to the UI thread.                                           *)
(*                                                                         *)
(* Text is modelled by strings (concatenated with \o); the text of the     *)
(* input field is a sequence of one-character strings, so that strip() and *)
(* quote() work on characters.  A JSON value is a record                   *)
(*   [t |-> type, kv |-> <<key, value>> pairs in order, s |-> JSON text of *)
(*    a scalar].                                                           *)
(***************************************************************************)
EXTENDS Integers, Sequences, FiniteSets, TLC

VARIABLES
    ip_var,      \* self.ip_var: text of the input field (sequence of characters)
    display,     \* content of self.out, the read-only result box
    status,      \* text of the self.status label
    btn_lookup,  \* state of the Lookup button: "normal" or "disabled"
    btn_myip,    \* state of the My IP button
    copy_btn,    \* state of the Copy JSON button
    last_json,   \* self.last_json
    clipboard,   \* text on the system clipboard
    notice,      \* title of the last message box shown ("" when none was)
    workers,     \* running worker threads: captured address -> number of threads
    callbacks,   \* pending root.after(0, ...) callbacks, in posting order
    requested    \* URL of the most recent HTTP request ("" before the first)

uiState == <<ip_var, display, status, btn_lookup, btn_myip, copy_btn, last_json>>

vars == <<ip_var, display, status, btn_lookup, btn_myip, copy_btn, last_json,
          clipboard, notice, workers, callbacks, requested>>

\* Most lookups that may be outstanding (worker running or callback pending)
\* at once; the triggers are not offered beyond it.
MaxInFlight == 2

(***************************************************************************)
(* Python and JSON values                                                  *)
(***************************************************************************)
None == [t |-> "None", kv |-> <<>>, s |-> ""]

JStr(x) == [t |-> "str", kv |-> <<>>, s |-> x]

JNum(x) == [t |-> "num", kv |-> <<>>, s |-> x]

JObj(pairs) == [t |-> "obj", kv |-> pairs, s |-> ""]

\* "key in d" for a dict d
HasKey(d, key) == \E i \in 1..Len(d.kv) : d.kv[i][1] = key

\* d.get(key, default) for a dict d
Get(d, key, default) ==
    IF HasKey(d, key)
    THEN d.kv[CHOOSE i \in 1..Len(d.kv) : d.kv[i][1] = key][2]
    ELSE default

\* str(v), as an f-string formats a value
PyStr(v) ==
    CASE v.t = "str" -> v.s
      [] v.t = "num" -> v.s
      [] v.t = "None" -> "None"
      [] OTHER -> "{...}"

\* bool(v): None, an empty dict and an empty string are false
Truthy(v) ==
    CASE v.t = "None" -> FALSE
      [] v.t = "obj" -> Len(v.kv) > 0
      [] v.t = "str" -> v.s # ""
      [] OTHER -> v.s # "0"

\* json.dumps of a scalar
DumpScalar(v) ==
    CASE v.t = "str" -> "\"" \o v.s \o "\""
      [] v.t = "num" -> v.s
      [] OTHER -> "null"

RECURSIVE DumpItems(_)
DumpItems(pairs) ==
    IF pairs = <<>> THEN ""
    ELSE "  \"" \o Head(pairs)[1] \o "\": " \o DumpScalar(Head(pairs)[2])
         \o (IF Len(pairs) > 1 THEN ",\n" ELSE "\n")
         \o DumpItems(Tail(pairs))

\* json.dumps(v, indent=2)
Dumps(v) ==
    IF v.t = "obj"
    THEN IF v.kv = <<>> THEN "{}" ELSE "{\n" \o DumpItems(v.kv) \o "}"
    ELSE DumpScalar(v)

(***************************************************************************)
(* query_ip: the request target and the outcomes of the request            *)
(***************************************************************************)
API_BASE == "http://ip-api.com/json/"

Whitespace == {" ", "\t", "\n"}

\* str.strip(): drop leading and trailing whitespace
RECURSIVE LStrip(_)
LStrip(cs) ==
    IF cs # <<>> /\ Head(cs) \in Whitespace THEN LStrip(Tail(cs)) ELSE cs

RECURSIVE RStrip(_)
RStrip(cs) ==
    IF cs # <<>> /\ cs[Len(cs)] \in Whitespace
    THEN RStrip(SubSeq(cs, 1, Len(cs) - 1))
    ELSE cs

strip(cs) == RStrip(LStrip(cs))

\* Characters urllib.parse.quote leaves alone: unreserved ones and "/"
AlwaysSafe ==
    {"A", "B", "C", "D", "E", "F", "G", "H", "I", "J", "K", "L", "M",
     "N", "O", "P", "Q", "R", "S", "T", "U", "V", "W", "X", "Y", "Z",
     "a", "b", "c", "d", "e", "f", "g", "h", "i", "j", "k", "l", "m",
     "n", "o", "p", "q", "r", "s", "t", "u", "v", "w", "x", "y", "z",
     "0", "1", "2", "3", "4", "5", "6", "7", "8", "9",
     "_", ".", "-", "~", "/"}

\* %XX of the other characters that occur in the inputs of this model
PercentHex(c) ==
    CASE c = " " -> "%20"
      [] c = ":" -> "%3A"
      [] c = "?" -> "%3F"
      [] c = "#" -> "%23"
      [] c = "%" -> "%25"
      [] c = "\t" -> "%09"
      [] c = "\n" -> "%0A"

\* urllib.parse.quote(cs)
RECURSIVE quote(_)
quote(cs) ==
    IF cs = <<>> THEN ""
    ELSE (IF Head(cs) \in AlwaysSafe THEN Head(cs) ELSE PercentHex(Head(cs)))
         \o quote(Tail(cs))

\* The characters of a text joined into one string
RECURSIVE Text(_)
Text(cs) == IF cs = <<>> THEN "" ELSE Head(cs) \o Text(Tail(cs))

\* The URL without the percent-encoding
RequestUrl_unquoted(ip) == API_BASE \o Text(strip(ip))

\* The URL query_ip(ip) requests
RequestUrl(ip) == API_BASE \o quote(strip(ip))

\* The address the provider reports for a request: the one asked for, or
\* the caller's own when the address segment is empty
OwnAddress == "203.0.113.7"

Reported(ip) == IF strip(ip) = <<>> THEN OwnAddress ELSE Text(strip(ip))

Raised(e) == [raised |-> TRUE, err |-> e, data |-> None]

Returned(d) == [raised |-> FALSE, err |-> "", data |-> d]

\* A successful answer of the provider: not every report field is present,
\* and "status" is a key outside the report's fields
SuccessPayload(ip) ==
    JObj(<< <<"status", JStr("success")>>,
            <<"country", JStr("United States")>>,
            <<"query", JStr(Reported(ip))>>,
            <<"lat", JNum("37.4")>> >>)

\* A failure reported by the provider
FailPayload(ip) ==
    JObj(<< <<"status", JStr("fail")>>,
            <<"message", JStr("invalid query")>>,
            <<"query", JStr(Reported(ip))>> >>)

\* What query_ip(ip) can do: raise (urlopen: transport error or timeout;
\* json.loads: body that is not JSON) or return the parsed body, which is
\* whatever JSON value the server sent
QueryOutcomes(ip) ==
    { Raised("<urlopen error timed out>"),
      Raised("Expecting value: line 1 column 1 (char 0)"),
      Returned(SuccessPayload(ip)),
      Returned(FailPayload(ip)),
      Returned(JObj(<<>>)),
      Returned(JStr("oops")) }

(***************************************************************************)
(* format_result                                                           *)
(***************************************************************************)
LabelWidth == 13

RuleLen == 30

\* The field table with the labels of regionName and region exchanged
fields_swapped ==
    << <<"query", "IP">>,
       <<"country", "Country">>,
       <<"countryCode", "Country Code">>,
       <<"region", "Region">>,
       <<"regionName", "Region Code">>,
       <<"city", "City">>,
       <<"zip", "ZIP">>,
       <<"lat", "Latitude">>,
       <<"lon", "Longitude">>,
       <<"timezone", "Timezone">>,
       <<"isp", "ISP">>,
       <<"org", "Org">>,
       <<"as", "AS">> >>

fields ==
    << <<"query", "IP">>,
       <<"country", "Country">>,
       <<"countryCode", "Country Code">>,
       <<"regionName", "Region">>,
       <<"region", "Region Code">>,
       <<"city", "City">>,
       <<"zip", "ZIP">>,
       <<"lat", "Latitude">>,
       <<"lon", "Longitude">>,
       <<"timezone", "Timezone">>,
       <<"isp", "ISP">>,
       <<"org", "Org">>,
       <<"as", "AS">> >>

\* "c" * n
RECURSIVE Repeat(_, _)
Repeat(c, n) == IF n <= 0 THEN "" ELSE c \o Repeat(c, n - 1)

\* f"{label:13}": left-aligned, padded with spaces to the width
Pad(label, width) == label \o Repeat(" ", width - Len(label))

\* "\n".join(lines)
RECURSIVE JoinLines(_)
JoinLines(lines) ==
    IF lines = <<>> THEN ""
    ELSE IF Len(lines) = 1 THEN Head(lines)
    ELSE Head(lines) \o "\n" \o JoinLines(Tail(lines))

\* The line of one field: f"{label:13}: {val}" with val = d.get(key, "")
FieldLine(d, f) == Pad(f[2], LabelWidth) \o ": " \o PyStr(Get(d, f[1], JStr("")))

format_result(d) ==
    JoinLines(<<"IP Lookup Result (ip-api.com)\n" \o Repeat("=", RuleLen)>>
              \o [i \in 1..Len(fields) |-> FieldLine(d, fields[i])]
              \o <<"", "Full JSON:", Dumps(d)>>)

(***************************************************************************)
(* The window: construction                                                *)
(***************************************************************************)
\* Texts the user types into the input field
Inputs ==
    { <<>>,
      <<" ", ":", ":", "1", " ">> }

\* Addresses a worker can have captured
Addresses == {strip(i) : i \in Inputs}

\* What the system clipboard holds when the program starts
ForeignClipboard == {"", "text of another program"}

Init ==
    /\ ip_var = <<>>
    /\ display = ""
    /\ status = "Ready"
    /\ btn_lookup = "normal"
    /\ btn_myip = "normal"
    /\ copy_btn = "normal"
    /\ last_json = None
    /\ clipboard \in ForeignClipboard
    /\ notice = ""
    /\ workers = [a \in Addresses |-> 0]
    /\ callbacks = <<>>
    /\ requested = ""

\* Worker threads that have not posted their callback yet
Running == LET RECURSIVE Sum(_)
               Sum(S) == IF S = {} THEN 0
                         ELSE LET a == CHOOSE x \in S : TRUE
                              IN workers[a] + Sum(S \ {a})
           IN Sum(Addresses)

\* Lookups triggered whose on_success/on_error has not run yet
InFlight == Running + Len(callbacks)

(***************************************************************************)
(* Methods of IPFinderApp                                                  *)
(***************************************************************************)
set_status(text) == status' = text

\* Replaces the whole content of the result box
append_text(text) == display' = text

\* clear that also takes the oldest pending callback off the queue
clear_drops_callback ==
    /\ ip_var' = <<>>
    /\ append_text("")
    /\ last_json' = None
    /\ set_status("Cleared")
    /\ callbacks' = IF callbacks = <<>> THEN <<>> ELSE Tail(callbacks)
    /\ UNCHANGED <<btn_lookup, btn_myip, copy_btn, clipboard, notice, workers,
                   requested>>

clear ==
    /\ ip_var' = <<>>
    /\ append_text("")
    /\ last_json' = None
    /\ set_status("Cleared")
    /\ UNCHANGED <<btn_lookup, btn_myip, copy_btn, clipboard, notice,
                   workers, callbacks, requested>>

\* lookup that inserts the notice without deleting the old content
lookup_keeps_text(cur) ==
    LET ip == strip(cur) IN
    /\ btn_lookup' = "disabled"
    /\ btn_myip' = "disabled"
    /\ copy_btn' = "disabled"
    /\ set_status("Querying...")
    /\ display' = "Querying ip-api.com...\n" \o display
    /\ workers' = [workers EXCEPT ![ip] = @ + 1]
    /\ UNCHANGED <<last_json, clipboard, notice, callbacks, requested>>

\* lookup that does not disable the Copy JSON button
lookup_forgets_copy(cur) ==
    LET ip == strip(cur) IN
    /\ btn_lookup' = "disabled"
    /\ btn_myip' = "disabled"
    /\ set_status("Querying...")
    /\ append_text("Querying ip-api.com...\n")
    /\ workers' = [workers EXCEPT ![ip] = @ + 1]
    /\ UNCHANGED <<copy_btn, last_json, clipboard, notice, callbacks,
                   requested>>

\* lookup(), called when the input field holds cur; it leaves the field alone
lookup(cur) ==
    LET ip == strip(cur) IN
    /\ btn_lookup' = "disabled"
    /\ btn_myip' = "disabled"
    /\ copy_btn' = "disabled"
    /\ set_status("Querying...")
    /\ append_text("Querying ip-api.com...\n")
    /\ workers' = [workers EXCEPT ![ip] = @ + 1]
    /\ UNCHANGED <<last_json, clipboard, notice, callbacks, requested>>

fill_my_ip ==
    /\ ip_var' = <<>>
    /\ lookup(<<>>)

\* The clipboard calls of copy_json either succeed or raise
ClipboardOutcomes == {"ok", "clear raises", "append raises"}

\* copy_json with the clipboard cleared before the payload is looked at
copy_json_clears_first(outcome) ==
    IF ~Truthy(last_json)
    THEN /\ clipboard' = ""
         /\ notice' = "Nothing to copy"
         /\ UNCHANGED <<ip_var, display, status, btn_lookup, btn_myip,
                        copy_btn, last_json, workers, callbacks, requested>>
    ELSE /\ clipboard' = IF outcome = "ok" THEN Dumps(last_json) ELSE ""
         /\ IF outcome = "ok"
            THEN set_status("JSON copied to clipboard") /\ UNCHANGED notice
            ELSE notice' = "Copy failed" /\ UNCHANGED status
         /\ UNCHANGED <<ip_var, display, btn_lookup, btn_myip, copy_btn,
                        last_json, workers, callbacks, requested>>

\* copy_json without the call of clipboard_clear
copy_json_no_clear(outcome) ==
    IF ~Truthy(last_json)
    THEN /\ notice' = "Nothing to copy"
         /\ UNCHANGED <<ip_var, display, status, btn_lookup, btn_myip,
                        copy_btn, last_json, clipboard, workers, callbacks,
                        requested>>
    ELSE /\ clipboard' = IF outcome = "ok"
                         THEN clipboard \o Dumps(last_json)
                         ELSE clipboard
         /\ IF outcome = "ok"
            THEN set_status("JSON copied to clipboard") /\ UNCHANGED notice
            ELSE notice' = "Copy failed" /\ UNCHANGED status
         /\ UNCHANGED <<ip_var, display, btn_lookup, btn_myip, copy_btn,
                        last_json, workers, callbacks, requested>>

\* copy_json() when its clipboard calls end as outcome
copy_json(outcome) ==
    IF ~Truthy(last_json)
    THEN /\ notice' = "Nothing to copy"
         /\ UNCHANGED <<ip_var, display, status, btn_lookup, btn_myip,
                        copy_btn, last_json, clipboard, workers, callbacks,
                        requested>>
    ELSE LET json_text == Dumps(last_json) IN
         /\ clipboard' = CASE outcome = "ok" -> "" \o json_text
                           [] outcome = "clear raises" -> clipboard
                           [] outcome = "append raises" -> ""
         /\ IF outcome = "ok"
            THEN set_status("JSON copied to clipboard") /\ UNCHANGED notice
            ELSE notice' = "Copy failed" /\ UNCHANGED status
         /\ UNCHANGED <<ip_var, display, btn_lookup, btn_myip, copy_btn,
                        last_json, workers, callbacks, requested>>

\* A thread body that shows its result itself instead of posting a callback
worker_direct(ip, outcome) ==
    /\ workers[ip] > 0
    /\ workers' = [workers EXCEPT ![ip] = @ - 1]
    /\ append_text(IF outcome.raised THEN "Error: " \o outcome.err
                   ELSE Dumps(outcome.data))
    /\ set_status(IF outcome.raised THEN "Error" ELSE "Done")
    /\ btn_lookup' = "normal"
    /\ btn_myip' = "normal"
    /\ copy_btn' = "normal"
    /\ requested' = RequestUrl(ip)
    /\ UNCHANGED <<ip_var, last_json, clipboard, notice, callbacks>>

\* A thread body whose except branch does not return: after on_error it
\* goes on to post on_success as well
worker_posts_both(ip, outcome) ==
    /\ workers[ip] > 0
    /\ workers' = [workers EXCEPT ![ip] = @ - 1]
    /\ requested' = RequestUrl(ip)
    /\ callbacks' =
         IF outcome.raised
         THEN callbacks \o
              << [fn |-> "on_error", err |-> outcome.err, data |-> None],
                 [fn |-> "on_success", err |-> "", data |-> None] >>
         ELSE Append(callbacks,
                     [fn |-> "on_success", err |-> "", data |-> outcome.data])
    /\ UNCHANGED <<ip_var, display, status, btn_lookup, btn_myip, copy_btn,
                   last_json, clipboard, notice>>

\* A thread body that reads the input field when it runs, not the address
\* lookup() captured
worker_reads_field(ip, outcome) ==
    /\ workers[ip] > 0
    /\ workers' = [workers EXCEPT ![ip] = @ - 1]
    /\ requested' = RequestUrl(ip_var)
    /\ callbacks' =
         Append(callbacks,
                IF outcome.raised
                THEN [fn |-> "on_error", err |-> outcome.err, data |-> None]
                ELSE [fn |-> "on_success", err |-> "",
                      data |-> IF outcome.data = SuccessPayload(ip)
                               THEN SuccessPayload(ip_var)
                               ELSE outcome.data])
    /\ UNCHANGED <<ip_var, display, status, btn_lookup, btn_myip, copy_btn,
                   last_json, clipboard, notice>>

\* The thread body of lookup(): query_ip(ip) requests its URL and ends as
\* outcome, and the matching callback is posted with root.after(0, ...)
worker(ip, outcome) ==
    /\ workers[ip] > 0
    /\ workers' = [workers EXCEPT ![ip] = @ - 1]
    /\ requested' = RequestUrl(ip)
    /\ callbacks' =
         Append(callbacks,
                IF outcome.raised
                THEN [fn |-> "on_error", err |-> outcome.err, data |-> None]
                ELSE [fn |-> "on_success", err |-> "", data |-> outcome.data])
    /\ UNCHANGED <<ip_var, display, status, btn_lookup, btn_myip, copy_btn,
                   last_json, clipboard, notice>>

\* on_error that leaves the Copy JSON button disabled
on_error_keeps_lock(err) ==
    /\ append_text("Error: " \o err)
    /\ set_status("Error")
    /\ btn_lookup' = "normal"
    /\ btn_myip' = "normal"
    /\ UNCHANGED <<ip_var, last_json, copy_btn>>

\* on_error that forgets the payload of the earlier lookup
on_error_drops_payload(err) ==
    /\ append_text("Error: " \o err)
    /\ set_status("Error")
    /\ btn_lookup' = "normal"
    /\ btn_myip' = "normal"
    /\ copy_btn' = "normal"
    /\ last_json' = None
    /\ UNCHANGED ip_var

on_error(err) ==
    /\ append_text("Error: " \o err)
    /\ set_status("Error")
    /\ btn_lookup' = "normal"
    /\ btn_myip' = "normal"
    /\ copy_btn' = "normal"
    /\ UNCHANGED <<ip_var, last_json>>

\* on_success with the status test inverted (== in place of !=)
on_success_inverted(data) ==
    /\ last_json' = data
    /\ IF data.t # "obj"
       THEN UNCHANGED <<display, status, btn_lookup, btn_myip, copy_btn>>
       ELSE /\ IF Get(data, "status", None) = JStr("success")
               THEN LET msg == Get(data, "message", JStr("lookup failed")) IN
                    /\ append_text("Lookup failed: " \o PyStr(msg)
                                   \o "\n\nRaw response:\n" \o Dumps(data))
                    /\ set_status("Failed")
               ELSE /\ append_text(format_result(data))
                    /\ set_status("Done")
            /\ btn_lookup' = "normal"
            /\ btn_myip' = "normal"
            /\ copy_btn' = "normal"
    /\ UNCHANGED ip_var

\* on_success with data.get("message") given no default
on_success_no_default(data) ==
    /\ last_json' = data
    /\ IF data.t # "obj"
       THEN UNCHANGED <<display, status, btn_lookup, btn_myip, copy_btn>>
       ELSE /\ IF Get(data, "status", None) # JStr("success")
               THEN LET msg == Get(data, "message", None) IN
                    /\ append_text("Lookup failed: " \o PyStr(msg)
                                   \o "\n\nRaw response:\n" \o Dumps(data))
                    /\ set_status("Failed")
               ELSE /\ append_text(format_result(data))
                    /\ set_status("Done")
            /\ btn_lookup' = "normal"
            /\ btn_myip' = "normal"
            /\ copy_btn' = "normal"
    /\ UNCHANGED ip_var

\* data.get of a value that is no dict raises AttributeError: Tk reports the
\* exception of the callback and the rest of on_success does not run
on_success(data) ==
    /\ last_json' = data
    /\ IF data.t # "obj"
       THEN UNCHANGED <<display, status, btn_lookup, btn_myip, copy_btn>>
       ELSE /\ IF Get(data, "status", None) # JStr("success")
               THEN LET msg == Get(data, "message", JStr("lookup failed")) IN
                    /\ append_text("Lookup failed: " \o PyStr(msg)
                                   \o "\n\nRaw response:\n" \o Dumps(data))
                    /\ set_status("Failed")
               ELSE /\ append_text(format_result(data))
                    /\ set_status("Done")
            /\ btn_lookup' = "normal"
            /\ btn_myip' = "normal"
            /\ copy_btn' = "normal"
    /\ UNCHANGED ip_var

(***************************************************************************)
(* Events                                                                  *)
(***************************************************************************)
\* The user edits the input field (it is never disabled)
TypeInput ==
    \E text \in Inputs :
        /\ text # ip_var
        /\ ip_var' = text
        /\ UNCHANGED <<display, status, btn_lookup, btn_myip, copy_btn,
                       last_json, clipboard, notice, workers, callbacks,
                       requested>>

\* command of the Lookup button; a disabled button ignores the click
ClickLookup ==
    /\ btn_lookup = "normal"
    /\ InFlight < MaxInFlight
    /\ ip_var' = ip_var
    /\ lookup(ip_var)

\* <Return> binding of the input field
PressReturn ==
    /\ InFlight < MaxInFlight
    /\ ip_var' = ip_var
    /\ lookup(ip_var)

ClickMyIP ==
    /\ btn_myip = "normal"
    /\ InFlight < MaxInFlight
    /\ fill_my_ip

ClickClear == clear

ClickCopy ==
    /\ copy_btn = "normal"
    /\ \E outcome \in ClipboardOutcomes : copy_json(outcome)

\* command of the documentation button, which is never disabled:
\* webbrowser.open hands the URL to the system's browser and no state of the
\* program changes
OpenDocs == UNCHANGED vars

\* A worker thread runs to its end
WorkerRuns ==
    \E ip \in Addresses : \E outcome \in QueryOutcomes(ip) : worker(ip, outcome)

\* The event loop runs the oldest pending callback
RunCallback ==
    /\ callbacks # <<>>
    /\ callbacks' = Tail(callbacks)
    /\ LET cb == Head(callbacks) IN
       IF cb.fn = "on_error" THEN on_error(cb.err) ELSE on_success(cb.data)
    /\ UNCHANGED <<clipboard, notice, workers, requested>>

Next ==
    \/ TypeInput
    \/ ClickLookup
    \/ PressReturn
    \/ ClickMyIP
    \/ ClickClear
    \/ ClickCopy
    \/ OpenDocs
    \/ WorkerRuns
    \/ RunCallback

Spec == Init /\ [][Next]_vars

\* Threads get to run and the event loop keeps dispatching; the user owes
\* the program nothing
FairSpec == Spec /\ WF_vars(WorkerRuns) /\ WF_vars(RunCallback)

(***************************************************************************)
(* Properties                                                              *)
(***************************************************************************)
AllEnabled ==
    /\ btn_lookup = "normal"
    /\ btn_myip = "normal"
    /\ copy_btn = "normal"

\* The event loop runs a callback in this step
Dispatching == callbacks # <<>> /\ callbacks' = Tail(callbacks)

IsSuccessObject(d) == d.t = "obj" /\ Get(d, "status", None) = JStr("success")

\* C1: at most one lookup is in flight in every reachable state: the
\* lookups triggered whose on_success/on_error has not run yet number 0 or 1.
C1_AtMostOneInFlight == InFlight <= 1

\* C2: every lookup attempt ends with the controls enabled again: under fair
\* scheduling of the workers and of the callback queue, whenever the buttons
\* have been disabled by a lookup, a state follows in which Lookup, My IP and
\* Copy JSON are all enabled and the status is not "Querying...".
C2_ControlsRestored ==
    (btn_lookup = "disabled") ~> (AllEnabled /\ status # "Querying...")

\* The callback this step runs is on_success with a JSON object that does
\* not report success
DeliversProviderFailure ==
    /\ Dispatching
    /\ Head(callbacks).fn = "on_success"
    /\ Head(callbacks).data.t = "obj"
    /\ ~IsSuccessObject(Head(callbacks).data)

\* C3: only successful lookups populate the copyable payload: when a lookup
\* completes with a provider-reported failure (a JSON object whose status is
\* not "success") and no payload was stored, no payload is stored afterwards
\* either: Copy JSON still finds nothing to copy.
C3_OnlySuccessStored ==
    [][(DeliversProviderFailure /\ last_json = None) => ~Truthy(last_json')]_vars

\* C4: single-writer discipline: a step in which a worker thread ends leaves
\* the UI state (input, display, status, button flags, stored payload), the
\* clipboard and the notices alone and appends exactly one on_error or
\* on_success callback to the queue; so every step that changes UI state is
\* a step of the UI thread.
C4_SingleWriter ==
    [][Running' < Running =>
         /\ UNCHANGED <<uiState, clipboard, notice>>
         /\ Len(callbacks') = Len(callbacks) + 1
         /\ SubSeq(callbacks', 1, Len(callbacks)) = callbacks
         /\ callbacks'[Len(callbacks')].fn \in {"on_error", "on_success"}]_vars

\* A worker has posted its callback and the UI still shows the querying state
C4_Witness == callbacks # <<>> /\ Running = 0 /\ status = "Querying..."

\* The callback this step runs belongs to a lookup that was in flight when
\* Clear ran: a trigger after Clear would have replaced the status
DeliversAfterClear == Dispatching /\ status = "Cleared" /\ display = ""

\* C5: Clear works in every lookup state and cancels nothing: it empties the
\* input, the display and the stored payload, sets the status "Cleared" and
\* leaves the workers, the pending callbacks and the button flags unchanged;
\* and a lookup in flight when Clear ran still delivers its result, which
\* then replaces the display and the status.
C5_ClearCancelsNothing ==
    [][/\ clear =>
            /\ ip_var' = <<>> /\ display' = "" /\ last_json' = None
            /\ status' = "Cleared"
            /\ UNCHANGED <<workers, callbacks, btn_lookup, btn_myip, copy_btn>>
       /\ DeliversAfterClear => (display' # display /\ status' # status)]_vars

\* C6: success outcome: running on_success with an object whose status is
\* "success" stores exactly that object, shows its formatted report, sets the
\* status "Done" and enables Lookup, My IP and Copy JSON.
C6_SuccessOutcome ==
    [][(/\ Dispatching
        /\ Head(callbacks).fn = "on_success"
        /\ IsSuccessObject(Head(callbacks).data)) =>
         /\ last_json' = Head(callbacks).data
         /\ display' = format_result(Head(callbacks).data)
         /\ status' = "Done"
         /\ AllEnabled']_vars

\* A success report is on display
C6_Witness ==
    /\ status = "Done"
    /\ AllEnabled
    /\ IsSuccessObject(last_json)
    /\ display = format_result(last_json)

\* C7: transport and parse errors are handled alike: when query_ip raises,
\* the worker posts on_error with the error's description and nothing else,
\* and running on_error shows "Error: <description>", sets the status "Error"
\* and enables Lookup, My IP and Copy JSON.
C7_ErrorOutcome ==
    [][/\ \A ip \in Addresses : \A outcome \in QueryOutcomes(ip) :
            (outcome.raised /\ worker(ip, outcome)) =>
                callbacks' = Append(callbacks, [fn |-> "on_error",
                                                err |-> outcome.err,
                                                data |-> None])
       /\ (Dispatching /\ Head(callbacks).fn = "on_error") =>
            /\ display' = "Error: " \o Head(callbacks).err
            /\ status' = "Error"
            /\ AllEnabled']_vars

\* The report of a body that was not JSON is on display
C7_Witness ==
    /\ status = "Error"
    /\ AllEnabled
    /\ display = "Error: Expecting value: line 1 column 1 (char 0)"

\* C8: provider-reported failure: running on_success with an object whose
\* status is absent or not "success" shows "Lookup failed: <m>" followed by
\* the indented raw JSON, <m> being the message field if present and
\* "lookup failed" otherwise, sets the status "Failed" and enables Lookup,
\* My IP and Copy JSON.
C8_ProviderFailure ==
    [][DeliversProviderFailure =>
         LET d == Head(callbacks).data
             m == IF HasKey(d, "message")
                  THEN PyStr(Get(d, "message", None))
                  ELSE "lookup failed"
         IN /\ display' = "Lookup failed: " \o m \o "\n\nRaw response:\n"
                          \o Dumps(d)
            /\ status' = "Failed"
            /\ AllEnabled']_vars

\* The failure of an object with neither status nor message is on display
C8_Witness ==
    /\ status = "Failed"
    /\ AllEnabled
    /\ display = "Lookup failed: lookup failed\n\nRaw response:\n{}"

\* C9: the error paths of Copy JSON change no state: with no stored payload
\* a nothing-to-copy notice is shown and payload, status, display, input and
\* clipboard are unchanged; with a payload and a clipboard call that raises,
\* an error notice is shown and payload and status are unchanged.
C9_CopyErrorPaths ==
    [][\A outcome \in ClipboardOutcomes :
         (copy_btn = "normal" /\ copy_json(outcome)) =>
            /\ ~Truthy(last_json) =>
                 /\ notice' = "Nothing to copy"
                 /\ UNCHANGED <<last_json, status, display, ip_var, clipboard>>
            /\ (Truthy(last_json) /\ outcome # "ok") =>
                 /\ notice' = "Copy failed"
                 /\ UNCHANGED <<last_json, status>>]_vars

\* A copy of a stored report has failed after the clipboard was cleared
C9_Witness ==
    /\ notice = "Copy failed"
    /\ IsSuccessObject(last_json)
    /\ status = "Done"
    /\ clipboard = ""

\* C10: the success path of Copy JSON: with a stored payload and clipboard
\* calls that succeed, the clipboard holds exactly the indented JSON of the
\* payload (earlier content is replaced), the status is "JSON copied to
\* clipboard" and payload, display and input are unchanged.
C10_CopySuccess ==
    [][(copy_btn = "normal" /\ Truthy(last_json) /\ copy_json("ok")) =>
         /\ clipboard' = Dumps(last_json)
         /\ status' = "JSON copied to clipboard"
         /\ UNCHANGED <<last_json, display, ip_var>>]_vars

\* A stored report has been copied
C10_Witness ==
    /\ status = "JSON copied to clipboard"
    /\ IsSuccessObject(last_json)
    /\ clipboard = Dumps(last_json)
    /\ display = format_result(last_json)

\* What Clear leaves behind
Cleared ==
    /\ ip_var = <<>>
    /\ display = ""
    /\ last_json = None
    /\ status = "Cleared"

\* C11: Clear is idempotent: Clear ends in a state with empty input, empty
\* display, no stored payload and status "Cleared", and a Clear performed in
\* such a state (a second Clear in a row) changes nothing at all: button
\* flags, workers, pending callbacks, clipboard and notices included.
C11_ClearIdempotent ==
    [][clear => (Cleared' /\ (Cleared => UNCHANGED vars))]_vars

\* Clear has run while two lookups were outstanding
C11_Witness == Cleared /\ InFlight = 2 /\ callbacks # <<>>

\* A step that triggers a lookup: Lookup button, Enter key or My IP
Triggering == ClickLookup \/ PressReturn \/ ClickMyIP

\* C12: entering Querying: at the end of every triggering step Lookup and
\* My IP are disabled, the status is "Querying...", the display holds the
\* querying notice alone, and exactly one worker more is running, for the
\* trimmed input; no callback is posted or run in the step, so the query
\* does not run inside it.
C12_EnteringQuerying ==
    [][Triggering =>
         /\ btn_lookup' = "disabled"
         /\ btn_myip' = "disabled"
         /\ status' = "Querying..."
         /\ display' = "Querying ip-api.com...\n"
         /\ workers' = [workers EXCEPT ![strip(ip_var')] = @ + 1]
         /\ Running' = Running + 1
         /\ UNCHANGED callbacks]_vars

\* A lookup was triggered over the report of an earlier one
C12_Witness ==
    /\ status = "Querying..."
    /\ display = "Querying ip-api.com...\n"
    /\ Running = 1
    /\ callbacks = <<>>
    /\ IsSuccessObject(last_json)

\* Inputs with the URL that query_ip requests for each of them
UrlCases ==
    { <<<<>>, "http://ip-api.com/json/">>,
      <<<<" ", ":", ":", "1", " ">>, "http://ip-api.com/json/%3A%3A1">>,
      <<<<":", ":", "1">>, "http://ip-api.com/json/%3A%3A1">>,
      <<<<"8", ".", "8", ".", "8", ".", "8">>, "http://ip-api.com/json/8.8.8.8">>,
      <<<<" ", "	">>, "http://ip-api.com/json/">>,
      <<<<" ", "a", " ", "b", "\n">>, "http://ip-api.com/json/a%20b">>,
      <<<<"x", "/", "y", "?", "z">>, "http://ip-api.com/json/x/y%3Fz">>,
      <<<<"5", "0", "%", "#">>, "http://ip-api.com/json/50%25%23">> }

\* The URL the cases give for an input
UrlOf(cs) == (CHOOSE c \in UrlCases : c[1] = cs)[2]

\* query_ip requests the written-out URL for each of the cases
UrlCasesHold == \A c \in UrlCases : RequestUrl(c[1]) = c[2]

\* C13: request target: the URL a lookup requests is the base endpoint
\* followed by the percent-encoding of the trimmed input, and the base
\* endpoint alone when the trimmed input is empty: a Lookup or Enter step
\* starts its worker for the trimmed input, a worker requests the URL of its
\* address, and My IP empties the input and starts a worker for the empty
\* address, whatever the input held.
C13_RequestTarget ==
    /\ []UrlCasesHold
    /\ [][/\ (ClickLookup \/ PressReturn) =>
               workers' = [workers EXCEPT ![strip(ip_var)] = @ + 1]
          /\ ClickMyIP =>
               /\ ip_var' = <<>>
               /\ workers' = [workers EXCEPT ![<<>>] = @ + 1]
          /\ Running' < Running =>
               \E a \in Addresses :
                   /\ workers' = [workers EXCEPT ![a] = @ - 1]
                   /\ requested' = UrlOf(a)]_vars

\* The address typed with blanks around it was requested percent-encoded
C13_Witness ==
    /\ ip_var = <<" ", ":", ":", "1", " ">>
    /\ requested = "http://ip-api.com/json/%3A%3A1"

\* A payload with every field of the report, in another order than the
\* report's, and a key that is no field of the report
FullPayload ==
    JObj(<< <<"as", JStr("AS15169 Google LLC")>>,
            <<"org", JStr("Google")>>,
            <<"isp", JStr("Google LLC")>>,
            <<"timezone", JStr("America/Chicago")>>,
            <<"lon", JNum("-97.822")>>,
            <<"lat", JNum("37.751")>>,
            <<"zip", JStr("20149")>>,
            <<"city", JStr("Ashburn")>>,
            <<"regionName", JStr("Virginia")>>,
            <<"region", JStr("VA")>>,
            <<"countryCode", JStr("US")>>,
            <<"country", JStr("United States")>>,
            <<"query", JStr("8.8.8.8")>>,
            <<"status", JStr("success")>>,
            <<"mobile", JStr("no")>> >>)

FullReport ==
    "IP Lookup Result (ip-api.com)\n"
    \o "==============================\n"
    \o "IP           : 8.8.8.8\n"
    \o "Country      : United States\n"
    \o "Country Code : US\n"
    \o "Region       : Virginia\n"
    \o "Region Code  : VA\n"
    \o "City         : Ashburn\n"
    \o "ZIP          : 20149\n"
    \o "Latitude     : 37.751\n"
    \o "Longitude    : -97.822\n"
    \o "Timezone     : America/Chicago\n"
    \o "ISP          : Google LLC\n"
    \o "Org          : Google\n"
    \o "AS           : AS15169 Google LLC\n"
    \o "\n"
    \o "Full JSON:\n"
    \o "{\n"
    \o "  \"as\": \"AS15169 Google LLC\",\n"
    \o "  \"org\": \"Google\",\n"
    \o "  \"isp\": \"Google LLC\",\n"
    \o "  \"timezone\": \"America/Chicago\",\n"
    \o "  \"lon\": -97.822,\n"
    \o "  \"lat\": 37.751,\n"
    \o "  \"zip\": \"20149\",\n"
    \o "  \"city\": \"Ashburn\",\n"
    \o "  \"regionName\": \"Virginia\",\n"
    \o "  \"region\": \"VA\",\n"
    \o "  \"countryCode\": \"US\",\n"
    \o "  \"country\": \"United States\",\n"
    \o "  \"query\": \"8.8.8.8\",\n"
    \o "  \"status\": \"success\",\n"
    \o "  \"mobile\": \"no\"\n"
    \o "}"

\* The report of an object without any key
EmptyReport ==
    "IP Lookup Result (ip-api.com)\n"
    \o "==============================\n"
    \o "IP           : \n"
    \o "Country      : \n"
    \o "Country Code : \n"
    \o "Region       : \n"
    \o "Region Code  : \n"
    \o "City         : \n"
    \o "ZIP          : \n"
    \o "Latitude     : \n"
    \o "Longitude    : \n"
    \o "Timezone     : \n"
    \o "ISP          : \n"
    \o "Org          : \n"
    \o "AS           : \n"
    \o "\n"
    \o "Full JSON:\n"
    \o "{}"

\* The report of SuccessPayload(ip), written out
SuccessReport(ip) ==
    "IP Lookup Result (ip-api.com)\n"
    \o "==============================\n"
    \o "IP           : " \o Reported(ip) \o "\n"
    \o "Country      : United States\n"
    \o "Country Code : \n"
    \o "Region       : \n"
    \o "Region Code  : \n"
    \o "City         : \n"
    \o "ZIP          : \n"
    \o "Latitude     : 37.4\n"
    \o "Longitude    : \n"
    \o "Timezone     : \n"
    \o "ISP          : \n"
    \o "Org          : \n"
    \o "AS           : \n"
    \o "\n"
    \o "Full JSON:\n"
    \o "{\n"
    \o "  \"status\": \"success\",\n"
    \o "  \"country\": \"United States\",\n"
    \o "  \"query\": \"" \o Reported(ip) \o "\",\n"
    \o "  \"lat\": 37.4\n"
    \o "}"

\* Payloads with the report format_result makes of each of them
ReportCases ==
    { <<FullPayload, FullReport>>, <<JObj(<<>>), EmptyReport>> }
    \cup { <<SuccessPayload(a), SuccessReport(a)>> : a \in Addresses }

\* format_result makes the written-out report of each of the cases
ReportCasesHold == \A c \in ReportCases : format_result(c[1]) = c[2]

\* C14: report format: format_result gives the fixed header, the 13 labeled
\* lines in the fixed order from the keys query, country, countryCode,
\* regionName, region, city, zip, lat, lon, timezone, isp, org, as, with an
\* empty value for an absent key, then the indented JSON of the whole
\* payload, where alone the other keys appear: it gives the written-out
\* report for each case, and every report on display is one of them.
C14_ReportFormat ==
    /\ ReportCasesHold
    /\ status = "Done" => \E a \in Addresses : display = SuccessReport(a)

\* The report of a lookup of the caller's own address is on display
C14_Witness ==
    /\ status = "Done"
    /\ display = SuccessReport(<<>>)
    /\ last_json = SuccessPayload(<<>>)

\* The result of the callback this step runs is applied: shown with its
\* status, and the value on_success received stored
ResultApplied ==
    LET cb == Head(callbacks) IN
    IF cb.fn = "on_error"
    THEN status' = "Error" /\ display' = "Error: " \o cb.err
    ELSE /\ last_json' = cb.data
         /\ IsSuccessObject(cb.data) =>
              status' = "Done" /\ display' = format_result(cb.data)
         /\ (cb.data.t = "obj" /\ ~IsSuccessObject(cb.data)) =>
              /\ status' = "Failed"
              /\ display' = "Lookup failed: "
                            \o PyStr(Get(cb.data, "message", JStr("lookup failed")))
                            \o "\n\nRaw response:\n" \o Dumps(cb.data)

\* C15: no cancellation and no generation check: each result is applied when
\* its callback runs, in queue order, whichever lookup was triggered first,
\* so that display, status and payload end as those of the callback that ran
\* last; and when the first of two outstanding lookups completes, Lookup,
\* My IP and Copy JSON are enabled although the other is still in flight.
C15_NoCancellation ==
    [][Dispatching => (ResultApplied /\ (InFlight >= 2 => AllEnabled'))]_vars

\* C16: exactly one completion per lookup: a worker posts one callback,
\* on_error when query_ip raised and on_success when it returned, never both;
\* a trigger starts one worker and posts nothing, and nothing else starts a
\* worker or posts a callback.  So the lookups triggered so far exceed the
\* callbacks posted so far by the number of running workers, which is never
\* negative: posted <= triggered, and they are equal once no worker runs.
C16_OneCompletion ==
    /\ [](\A a \in Addresses : workers[a] >= 0)
    /\ [][/\ \A ip \in Addresses : \A outcome \in QueryOutcomes(ip) :
               worker(ip, outcome) =>
                   \E cb \in {[fn |-> "on_error", err |-> outcome.err,
                               data |-> None],
                              [fn |-> "on_success", err |-> "",
                               data |-> outcome.data]} :
                       /\ callbacks' = Append(callbacks, cb)
                       /\ cb.fn = "on_error" <=> outcome.raised
          /\ Running' < Running =>
               /\ Running' = Running - 1
               /\ Len(callbacks') = Len(callbacks) + 1
          /\ Len(callbacks') > Len(callbacks) =>
               /\ Running' = Running - 1
               /\ Len(callbacks') = Len(callbacks) + 1
          /\ Running' > Running =>
               /\ Running' = Running + 1
               /\ UNCHANGED callbacks
               /\ Triggering]_vars

\* One of two workers has posted its callback, an on_error
C16_Witness ==
    /\ Running = 1
    /\ Len(callbacks) = 1
    /\ callbacks[1].fn = "on_error"

\* C17: neither triggering a lookup nor an error touches the stored
\* payload: every triggering step and every on_error step leaves last_json
\* unchanged, so that an earlier payload stays stored while a new lookup is
\* in flight and after it has ended in an error; a step that changes
\* last_json is a Clear or runs on_success.
C17_PayloadKept ==
    [][/\ Triggering => UNCHANGED last_json
       /\ (Dispatching /\ Head(callbacks).fn = "on_error") =>
            UNCHANGED last_json
       /\ last_json' # last_json =>
            (clear \/ (Dispatching /\ Head(callbacks).fn = "on_success"))]_vars

\* A lookup has ended in an error and the earlier report is still stored
C17_Witness ==
    /\ status = "Error"
    /\ AllEnabled
    /\ InFlight = 0
    /\ IsSuccessObject(last_json)

\* C18: Lookup, My IP and Copy JSON share one state in every reachable
\* state, and Clear, the documentation link and the Enter key are available
\* in every reachable state, whatever the state of the buttons (for Enter,
\* as long as the model admits one more lookup).
C18_ButtonsTogether ==
    /\ btn_lookup = btn_myip
    /\ btn_myip = copy_btn
    /\ ENABLED ClickClear
    /\ ENABLED OpenDocs
    /\ InFlight < MaxInFlight => ENABLED PressReturn

\* The buttons are disabled by a lookup in flight; Clear and Enter are not
C18_Witness ==
    /\ btn_lookup = "disabled"
    /\ btn_myip = "disabled"
    /\ copy_btn = "disabled"
    /\ Running = 1
    /\ ENABLED ClickClear
    /\ ENABLED PressReturn
    /\ ~ENABLED ClickLookup

\* The callbacks a worker that captured address a can post
CallbacksOf(a) ==
    { IF o.raised
      THEN [fn |-> "on_error", err |-> o.err, data |-> None]
      ELSE [fn |-> "on_success", err |-> "", data |-> o.data]
      : o \in QueryOutcomes(a) }

\* C19: the address of a lookup is fixed at trigger time: a step that
\* changes the input field (typing, Clear, My IP) takes no worker away and
\* changes no pending callback and no request, and a worker requests the
\* URL of the address it captured and posts a result of that address,
\* whatever the input field holds when it runs.
C19_AddressFixed ==
    [][/\ ip_var' # ip_var =>
            /\ \A a \in Addresses : workers'[a] >= workers[a]
            /\ UNCHANGED <<callbacks, requested>>
       /\ (ClickLookup \/ PressReturn) =>
            workers' = [workers EXCEPT ![strip(ip_var)] = @ + 1]
       /\ Running' < Running =>
            \E a \in Addresses :
                /\ workers' = [workers EXCEPT ![a] = @ - 1]
                /\ requested' = UrlOf(a)
                /\ callbacks'[Len(callbacks')] \in CallbacksOf(a)]_vars

\* The result of a lookup of ::1 is pending although the input was cleared
C19_Witness ==
    /\ ip_var = <<>>
    /\ status = "Cleared"
    /\ requested = "http://ip-api.com/json/%3A%3A1"
    /\ callbacks = << [fn |-> "on_success", err |-> "",
                       data |-> SuccessPayload(<<":", ":", "1">>)] >>

====
